---- MODULE Spec2Model ----
(***************************************************************************)
(* A model of the presentation generator's client side and launcher:       *)
(*   - PresentationGenerationApi, the HTTP client wrapper (one action per  *)
(*     static method, each the whole try/catch of that method);            *)
(*   - getNumberForLanguage, the locale formatter of storeHelpers.ts;      *)
(*   - handleSaveLLMConfig and hasValidLLMConfig of storeHelpers.ts;       *)
(*   - V2TestPage, the demonstration page (fetchModels, testGeneration);   *)
(*   - the start scripts that launch and stop the servers.                 *)
(* JavaScript values are tagged records [t |-> <type>, ...]; strings that  *)
(* the code inspects character by character are sequences of characters.   *)
(* A wrapper method is one action, call to settlement; a handler of the    *)
(* page and handleSaveLLMConfig are one action up to their await and one   *)
(* from it on, since their state is visible in between.                    *)
(***************************************************************************)
EXTENDS Integers, Sequences, FiniteSets, TLC

VARIABLES
    op,         \* the wrapper method of the last invocation ("none" before any)
    response,   \* what fetch settled with in that invocation
    outcome,    \* how the invocation settled: a returned value or a thrown error
    log,        \* the console.error entries written by that invocation
    fetches,    \* the network calls issued by that invocation
    argLanguage, \* the language argument of getNumberForLanguage
    argIndex,    \* the index argument of getNumberForLanguage
    ordinal,     \* what the call returned: <<>> before it, <<string>> after it
    consulted,   \* the resolution steps the call went through, in order
    validArg,    \* the argument of a call of hasValidLLMConfig
    validResult, \* what that call returned: <<>> before it, <<boolean>> after it
    save,        \* the call of handleSaveLLMConfig: its position, argument, error
    saveFetches, \* the network calls that call has issued, each with its settlement
    dispatched,  \* the actions dispatched to the configuration store, in order
    page,        \* V2TestPage's React state
    toasts,      \* the notifications V2TestPage has raised, in order
    inflight,    \* V2TestPage's handlers that are at their await, with their request
    launcher,    \* the start script: which one, the line it is at, its trap
    children,    \* the state of each process the script starts
    signalled    \* the children the script has sent a termination to

apiVars == <<op, response, outcome, log, fetches>>
localeVars == <<argLanguage, argIndex, ordinal, consulted>>
storeVars == <<validArg, validResult, save, saveFetches, dispatched>>
pageVars == <<page, toasts, inflight>>
launcherVars == <<launcher, children, signalled>>
vars == <<op, response, outcome, log, fetches, argLanguage, argIndex, ordinal, consulted,
          validArg, validResult, save, saveFetches, dispatched,
          page, toasts, inflight, launcher, children, signalled>>

(***************************************************************************)
(* JavaScript values                                                       *)
(***************************************************************************)
Undefined == [t |-> "undefined", v |-> ""]
Null == [t |-> "null", v |-> ""]
Str(s) == [t |-> "string", v |-> s]
Arr(s) == [t |-> "array", v |-> s]
True == [t |-> "boolean", v |-> "true"]

\* ToBoolean: undefined, null and the empty string are falsy; every array
\* (the empty one too) and every non-empty string is truthy.
Truthy(x) == ~(x.t \in {"undefined", "null"} \/ (x.t = "string" /\ x.v = ""))

\* a || b
OrElse(a, b) == IF Truthy(a) THEN a ELSE b

(***************************************************************************)
(* What fetch can settle with                                              *)
(***************************************************************************)
\* The decoded JSON bodies: the literal null, or an object whose fields are
\* each absent (undefined), present but empty, or present with content.
Payloads ==
    {[t |-> "null", id |-> Undefined, title |-> Undefined, slides |-> Undefined,
      theme |-> Undefined, message |-> Undefined]}
    \cup
    [t : {"object"},
     id : {Undefined, Str(""), Str("p1")},
     title : {Undefined, Str("T")},
     slides : {Undefined, Arr("[]"), Arr("[s1]")},
     theme : {Undefined, Str("dark")},
     message : {Undefined, Str(""), Str("done")}]

NoPayload == [t |-> "none", id |-> Undefined, title |-> Undefined, slides |-> Undefined,
              theme |-> Undefined, message |-> Undefined]

\* The HTTP statuses the server answers with, each with its reason phrase.
StatusTexts ==
    [s \in {200, 201, 204, 404, 500} |->
        CASE s = 200 -> "OK"
          [] s = 201 -> "Created"
          [] s = 204 -> "No Content"
          [] s = 404 -> "Not Found"
          [] s = 500 -> "Internal Server Error"]

\* fetch either rejects (a transport fault: no response at all) or resolves
\* with a Response of some status whose body parses as JSON or does not.
Responses ==
    {[kind |-> "fault", status |-> 0, statusText |-> "", parsable |-> FALSE, data |-> NoPayload]}
    \cup
    {[kind |-> "response", status |-> s, statusText |-> StatusTexts[s],
      parsable |-> TRUE, data |-> d] : s \in DOMAIN StatusTexts, d \in Payloads}
    \cup
    {[kind |-> "response", status |-> s, statusText |-> StatusTexts[s],
      parsable |-> FALSE, data |-> NoPayload] : s \in DOMAIN StatusTexts}

\* Response.ok
Ok(resp) == resp.status >= 200 /\ resp.status <= 299

(***************************************************************************)
(* Settling                                                                *)
(***************************************************************************)
Return(value) == [kind |-> "return", value |-> value, error |-> [name |-> "", message |-> <<>>]]
Throw(error) == [kind |-> "throw", value |-> Undefined, error |-> error]

\* new Error(`<purpose>: ${response.statusText}`): the template's parts.
Failed(purpose, resp) == [name |-> "Error", message |-> <<purpose, ": ", resp.statusText>>]

\* fetch rejects with a TypeError on a transport fault.
FetchFault == [name |-> "TypeError", message |-> <<"Failed to fetch">>]

\* await response.json(): the decoded payload, or a SyntaxError.
Json(resp) ==
    IF resp.parsable THEN Return(resp.data)
    ELSE Throw([name |-> "SyntaxError", message |-> <<"Unexpected end of JSON input">>])

\* The method's try block around one fetch: `body` is what the code does with
\* the Response once fetch has resolved.
Try(resp, body) == IF resp.kind = "fault" THEN Throw(FetchFault) ELSE body

\* The catch block: console.error(label, error); throw error.
Catch(label, result) ==
    IF result.kind = "throw" THEN <<[label |-> label, error |-> result.error]>> ELSE <<>>

\* One invocation of a wrapper method, from call to settlement. The methods
\* are static and share no state, so an invocation starts from the idle state
\* whatever ran before it: a behaviour follows one invocation (op = "none" is
\* the guard of every method).
Settle(name, resp, request, result, label) ==
    /\ op' = name
    /\ response' = resp
    /\ fetches' = request
    /\ outcome' = result
    /\ log' = Catch(label, result)
    /\ UNCHANGED <<localeVars, storeVars, pageVars, launcherVars>>

Request(method, url, cache) == <<[method |-> method, url |-> url, cache |-> cache]>>

(***************************************************************************)
(* PresentationGenerationApi: the try block of each method, then the       *)
(* method itself as one action                                             *)
(***************************************************************************)
\* if (response.status === 200) return await response.json(); and nothing else:
\* every other status falls off the end of the method.
getChapterDetailsTry(resp) ==
    Try(resp, IF resp.status = 200 THEN Json(resp) ELSE Return(Undefined))

getChapterDetails ==
    /\ op = "none"
    /\ \E resp \in Responses :
        Settle("getChapterDetails", resp,
               Request("GET", "/api/v2/ppt/chapter-details", "no-cache"),
               getChapterDetailsTry(resp), "Error getting chapter details:")

uploadDocTry(resp) ==
    Try(resp, IF ~Ok(resp) THEN Throw(Failed("Upload failed", resp)) ELSE Json(resp))

uploadDoc ==
    /\ op = "none"
    /\ \E resp \in Responses :
        Settle("uploadDoc", resp,
               Request("POST", "/api/v2/ppt/files/upload", "no-cache"),
               uploadDocTry(resp), "Upload error:")

decomposeDocumentsTry(resp) ==
    Try(resp, IF resp.status = 200 THEN Json(resp)
              ELSE Throw(Failed("Failed to decompose files", resp)))

decomposeDocuments ==
    /\ op = "none"
    /\ \E resp \in Responses :
        Settle("decomposeDocuments", resp,
               Request("POST", "/api/v2/ppt/files/decompose", "no-cache"),
               decomposeDocumentsTry(resp), "Error in Decompose Files")

titleGenerationTry(resp) ==
    Try(resp, IF resp.status = 200 THEN Json(resp)
              ELSE Throw(Failed("Failed to generate titles", resp)))

\* The request body reads `prompt`, which the method neither takes nor declares:
\* where a global of that name exists (a browser window) the call goes out, and
\* where none does the read throws a ReferenceError inside the try, before fetch.
titleGeneration ==
    /\ op = "none"
    /\ \E resp \in Responses, promptIsGlobal \in BOOLEAN :
        IF promptIsGlobal
        THEN Settle("titleGeneration", resp,
                    Request("POST", "/api/v2/ppt/outlines/generate", "no-cache"),
                    titleGenerationTry(resp), "error in title generation")
        ELSE Settle("titleGeneration",
                    [kind |-> "unsent", status |-> 0, statusText |-> "",
                     parsable |-> FALSE, data |-> NoPayload],
                    <<>>,
                    Throw([name |-> "ReferenceError", message |-> <<"prompt is not defined">>]),
                    "error in title generation")

\* Envelope without the default message (message: data.message).
EnvelopeNoDefault(data) ==
    [t |-> "envelope",
     presentation |-> [id |-> data.id, title |-> data.title, theme |-> data.theme],
     slides |-> data.slides,
     message |-> data.message]

\* The V1 envelope built from a V2 payload.
Envelope(data) ==
    [t |-> "envelope",
     presentation |-> [id |-> data.id, title |-> data.title, theme |-> data.theme],
     slides |-> data.slides,
     message |-> OrElse(data.message, Str("Presentation generated successfully"))]

\* What the method does with the decoded payload: data.id on null throws a
\* TypeError; a payload with truthy id and slides is wrapped; any other is
\* returned as it is.
Normalize(data) ==
    IF data.t = "null"
    THEN Throw([name |-> "TypeError",
                message |-> <<"Cannot read properties of null (reading 'id')">>])
    ELSE IF Truthy(data.id) /\ Truthy(data.slides)
    THEN Return(Envelope(data))
    ELSE Return(data)

generatePresentationTry(resp) ==
    Try(resp, IF resp.status = 200
              THEN (IF Json(resp).kind = "throw" THEN Json(resp) ELSE Normalize(Json(resp).value))
              ELSE Throw(Failed("Failed to generate presentation", resp)))

\* JSON.stringify(object): the properties whose value is undefined are left
\* out, and NaN is written as null.
Stringify(object) ==
    [k \in {key \in DOMAIN object : object[key].t # "undefined"} |->
        IF object[k].t = "NaN" THEN Null ELSE object[k]]

\* The arguments a caller passes as presentationData (typed any): the image
\* provider and the flux model, each given or not.
PresentationData ==
    [image_provider : {Undefined, Str("openai"), Str("flux")},
     flux_model : {Undefined, Str("dev")}]

\* The method passes presentationData to JSON.stringify and fetch unexamined.
generatePresentation ==
    /\ op = "none"
    /\ \E presentationData \in PresentationData, resp \in Responses :
        Settle("generatePresentation", resp,
               <<[method |-> "POST", url |-> "/api/v2/ppt/generate/presentation",
                  cache |-> "no-cache", body |-> Stringify(presentationData)]>>,
               generatePresentationTry(resp), "error in presentation generation")

\* The error of editSlide is a fixed string: it carries no status text.
editSlideTry(resp) ==
    Try(resp, IF ~Ok(resp)
              THEN Throw([name |-> "Error", message |-> <<"Failed to update slides">>])
              ELSE Json(resp))

editSlide ==
    /\ op = "none"
    /\ \E resp \in Responses :
        Settle("editSlide", resp, Request("POST", "/api/v2/ppt/edit", "no-cache"),
               editSlideTry(resp), "error in slide update")

\* The shape shared by the remaining methods:
\* if (response.ok) return await response.json(); else throw new Error(...).
OkOrFailed(resp, purpose) ==
    Try(resp, IF Ok(resp) THEN Json(resp) ELSE Throw(Failed(purpose, resp)))

updatePresentationContent ==
    /\ op = "none"
    /\ \E resp \in Responses :
        Settle("updatePresentationContent", resp,
               Request("POST", "/api/v2/ppt/slides/update", "no-cache"),
               OkOrFailed(resp, "Failed to update presentation content"),
               "error in presentation content update")

generateData ==
    /\ op = "none"
    /\ \E resp \in Responses :
        Settle("generateData", resp,
               Request("POST", "/api/v2/ppt/generate/data", "no-cache"),
               OkOrFailed(resp, "Failed to generate data"), "error in data generation")

imageSearch ==
    /\ op = "none"
    /\ \E resp \in Responses :
        Settle("imageSearch", resp,
               Request("POST", "/api/v2/ppt/image/search", "no-cache"),
               OkOrFailed(resp, "Failed to search images"), "error in image search")

generateImage ==
    /\ op = "none"
    /\ \E resp \in Responses :
        Settle("generateImage", resp,
               Request("POST", "/api/v2/ppt/image/generate", "no-cache"),
               OkOrFailed(resp, "Failed to generate images"), "error in image generation")

searchIcons ==
    /\ op = "none"
    /\ \E resp \in Responses :
        Settle("searchIcons", resp,
               Request("POST", "/api/v2/ppt/icon/search", "no-cache"),
               OkOrFailed(resp, "Failed to search icons"), "error in icon search")

updateDocuments ==
    /\ op = "none"
    /\ \E resp \in Responses :
        Settle("updateDocuments", resp,
               Request("POST", "/api/v2/ppt/document/update", "no-cache"),
               OkOrFailed(resp, "Failed to update documents"), "error in document update")

exportAsPPTX ==
    /\ op = "none"
    /\ \E resp \in Responses :
        Settle("exportAsPPTX", resp,
               Request("POST", "/api/v2/ppt/presentation/export_as_pptx", "no-cache"),
               OkOrFailed(resp, "Failed to export as pptx"), "error in pptx export")

\* exportAsPDF and setThemeColors pass no cache option: the request keeps
\* fetch's default cache mode.
exportAsPDF ==
    /\ op = "none"
    /\ \E resp \in Responses :
        Settle("exportAsPDF", resp,
               Request("POST", "/api/v2/ppt/presentation/export_as_pdf", "default"),
               OkOrFailed(resp, "Failed to export as pdf"), "error in pdf export")

\* deleteSlide accepting every 2xx status (response.ok), like its siblings.
deleteSlideTryOk(resp) ==
    Try(resp, IF Ok(resp) THEN Return(True)
              ELSE Throw(Failed("Failed to delete slide", resp)))

deleteSlideTry(resp) ==
    Try(resp, IF resp.status = 204 THEN Return(True)
              ELSE Throw(Failed("Failed to delete slide", resp)))

deleteSlide ==
    /\ op = "none"
    /\ \E resp \in Responses :
        Settle("deleteSlide", resp,
               Request("DELETE", "/api/v2/ppt/slide/delete", "no-cache"),
               deleteSlideTry(resp), "error in slide deletion")

setThemeColors ==
    /\ op = "none"
    /\ \E resp \in Responses :
        Settle("setThemeColors", resp,
               Request("POST", "/api/v2/ppt/presentation/theme", "default"),
               OkOrFailed(resp, "Failed to set theme colors"), "error in theme colors set")

getQuestions ==
    /\ op = "none"
    /\ \E resp \in Responses :
        Settle("getQuestions", resp, Request("POST", "/api/v2/ppt/create", "no-cache"),
               OkOrFailed(resp, "Failed to get questions"), "error in question generation")

getAvailableModels ==
    /\ op = "none"
    /\ \E resp \in Responses :
        Settle("getAvailableModels", resp, Request("GET", "/api/v2/ppt/models", "no-cache"),
               OkOrFailed(resp, "Failed to get available models"), "error in getting models")

\* The wrapper is stateless: before any call nothing has settled.
NoResponse == [kind |-> "none", status |-> 0, statusText |-> "", parsable |-> FALSE,
               data |-> NoPayload]

ApiIdle ==
    /\ op = "none"
    /\ response = NoResponse
    /\ outcome = Return(Undefined)
    /\ log = <<>>
    /\ fetches = <<>>

LocaleIdle ==
    /\ argLanguage = <<>>
    /\ argIndex = 0
    /\ ordinal = <<>>
    /\ consulted = <<>>

\* No call of hasValidLLMConfig or handleSaveLLMConfig yet, nothing dispatched.
StoreIdle ==
    /\ validArg = <<>>
    /\ validResult = <<>>
    /\ save = [pc |-> "idle", arg |-> <<>>, error |-> <<>>]
    /\ saveFetches = <<>>
    /\ dispatched = <<>>

\* The useState initial values of V2TestPage, before its mount effect runs.
PageIdle ==
    /\ page = [prompt |-> Str("Create a presentation about renewable energy sources"),
               model |-> Str(""),
               slides |-> <<"5">>,
               loading |-> FALSE,
               response |-> Null,
               error |-> Null,
               availableModels |-> Arr("[]"),
               loadingModels |-> FALSE]
    /\ toasts = <<>>
    /\ inflight = [models |-> <<>>, generation |-> <<>>,
                   settled |-> [handler \in {"fetchModels", "testGeneration"} |-> <<>>]]

\* No start script is running and no server process exists.
LauncherIdle ==
    /\ launcher = [script |-> "none", pc |-> 0, trap |-> FALSE, status |-> "notRun"]
    /\ children = [c \in {"redis", "fastapi", "nextjs", "nextjs-v2", "nginx"} |-> "notStarted"]
    /\ signalled = {}

InitApi == ApiIdle /\ LocaleIdle /\ StoreIdle /\ PageIdle /\ LauncherIdle

NextApi ==
    \/ getChapterDetails
    \/ uploadDoc
    \/ decomposeDocuments
    \/ titleGeneration
    \/ generatePresentation
    \/ editSlide
    \/ updatePresentationContent
    \/ generateData
    \/ imageSearch
    \/ generateImage
    \/ searchIcons
    \/ updateDocuments
    \/ exportAsPPTX
    \/ exportAsPDF
    \/ deleteSlide
    \/ setThemeColors
    \/ getQuestions
    \/ getAvailableModels

SpecApi == InitApi /\ [][NextApi]_vars

(***************************************************************************)
(* Claims about the HTTP client wrapper (checked under SpecApi)            *)
(***************************************************************************)
\* generatePresentation has settled on a status-200 response whose body decoded.
GenerateDecoded ==
    /\ op = "generatePresentation"
    /\ response.kind = "response"
    /\ response.status = 200
    /\ response.parsable

\* The envelope the claims describe, with the given message.
EnvelopeOf(data, message) ==
    [t |-> "envelope",
     presentation |-> [id |-> data.id, title |-> data.title, theme |-> data.theme],
     slides |-> data.slides,
     message |-> message]

DefaultMessage == Str("Presentation generated successfully")

\* C1 as stated: whenever the decoded payload of a status-200 response carries
\* an id and a slides sequence, generatePresentation returns the envelope, with
\* the payload's message when it is present and the default message otherwise.
C1Original ==
    (GenerateDecoded /\ response.data.id.t # "undefined" /\ response.data.slides.t = "array")
        => outcome = Return(EnvelopeOf(response.data,
                                IF response.data.message.t # "undefined"
                                THEN response.data.message ELSE DefaultMessage))

\* C1 as amended: whenever the decoded payload of a status-200 response carries
\* a non-empty (truthy) id and a slides sequence, generatePresentation returns
\* the envelope with id, title, theme and slides copied from the payload, with
\* the payload's message when it is present and non-empty, and the default
\* message otherwise.
C1Amended ==
    (GenerateDecoded /\ Truthy(response.data.id) /\ response.data.slides.t = "array")
        => outcome = Return(EnvelopeOf(response.data,
                                IF response.data.message.t = "string" /\ response.data.message.v # ""
                                THEN response.data.message ELSE DefaultMessage))

\* A payload with an id, slides and an empty message was wrapped, and the
\* envelope carries the default message.
C1Witness ==
    /\ GenerateDecoded
    /\ response.data.id = Str("p1")
    /\ response.data.slides = Arr("[s1]")
    /\ response.data.message = Str("")
    /\ outcome.kind = "return"
    /\ outcome.value.t = "envelope"
    /\ outcome.value.message = DefaultMessage

\* C2 as stated: whenever the decoded payload of a status-200 response lacks
\* id or lacks slides, generatePresentation returns that payload unchanged.
C2Original ==
    (GenerateDecoded /\ (response.data.id.t = "undefined" \/ response.data.slides.t = "undefined"))
        => outcome = Return(response.data)

\* The status is not the method's success status: 204 for deleteSlide, 2xx
\* for every other method.
NonSuccess ==
    /\ response.kind = "response"
    /\ IF op = "deleteSlide" THEN response.status # 204 ELSE ~Ok(response)

\* C3 as stated: whenever a wrapper method has met a non-success status, it has
\* thrown an error whose message holds a purpose and the server's status text.
C3Original ==
    NonSuccess =>
        /\ outcome.kind = "throw"
        /\ Len(outcome.error.message) >= 2
        /\ \E i \in DOMAIN outcome.error.message :
               outcome.error.message[i] = response.statusText

\* C4: deleteSlide returns true exactly when the response status is 204, and
\* throws on every other status and on a transport fault.
C4DeleteSlideTrueOnlyOn204 ==
    op = "deleteSlide" =>
        /\ (outcome = Return(True)) <=> (response.kind = "response" /\ response.status = 204)
        /\ outcome.kind = "return" \/ outcome.kind = "throw"
        /\ outcome.kind = "return" => outcome.value = True

\* deleteSlide met status 200 and threw.
C4Witness ==
    /\ op = "deleteSlide"
    /\ response.kind = "response"
    /\ response.status = 200
    /\ outcome.kind = "throw"

\* C5 as stated: whenever a wrapper method has met a failure (a transport fault
\* or a non-success status), it has thrown, it has logged the error it threw,
\* and it has issued no second network call.
C5Original ==
    /\ Len(fetches) <= 1
    /\ (response.kind = "fault" \/ NonSuccess) =>
          /\ outcome.kind = "throw"
          /\ Len(log) = 1
          /\ log[1].error = outcome.error

(***************************************************************************)
(* getNumberForLanguage (storeHelpers.ts)                                  *)
(* A string is the sequence of its characters. "#" stands for a character  *)
(* of a native script, which toLowerCase and the split leave alone.        *)
(***************************************************************************)
\* An optional value: <<>> for undefined, <<x>> for x.
None == <<>>
Some(x) == <<x>>

UpperCase == <<"A", "B", "C", "D", "E", "F", "G", "H", "I", "J", "K", "L", "M",
               "N", "O", "P", "Q", "R", "S", "T", "U", "V", "W", "X", "Y", "Z">>
LowerCase == <<"a", "b", "c", "d", "e", "f", "g", "h", "i", "j", "k", "l", "m",
               "n", "o", "p", "q", "r", "s", "t", "u", "v", "w", "x", "y", "z">>
WhiteSpace == {" ", "\t"}

\* The lower-case letter of each upper-case letter.
LowerOf ==
    [c \in {UpperCase[j] : j \in 1..Len(UpperCase)} |->
        LowerCase[CHOOSE j \in 1..Len(UpperCase) : UpperCase[j] = c]]

\* String.prototype.toLowerCase
ToLowerCase(s) ==
    [i \in 1..Len(s) |-> IF s[i] \in DOMAIN LowerOf THEN LowerOf[s[i]] ELSE s[i]]

\* String.prototype.trim: the string between its first and its last
\* character that is not white space.
Trim(s) ==
    LET inked == {i \in 1..Len(s) : s[i] \notin WhiteSpace}
    IN IF inked = {} THEN <<>>
       ELSE SubSeq(s, CHOOSE i \in inked : \A j \in inked : i <= j,
                      CHOOSE i \in inked : \A j \in inked : i >= j)

\* String.prototype.startsWith
StartsWith(s, prefix) ==
    Len(prefix) <= Len(s) /\ SubSeq(s, 1, Len(prefix)) = prefix

\* s.split(/[\s(]/)[0]: what precedes the first white space or "(".
FirstToken(s) ==
    LET cuts == {i \in 1..Len(s) : s[i] \in WhiteSpace \cup {"("}}
    IN IF cuts = {} THEN s
       ELSE SubSeq(s, 1, (CHOOSE i \in cuts : \A j \in cuts : i <= j) - 1)

\* String(n) for a natural number n.
RECURSIVE DecimalString(_)
DecimalString(n) ==
    LET digit == <<"0", "1", "2", "3", "4", "5", "6", "7", "8", "9">>[(n % 10) + 1]
    IN IF n < 10 THEN <<digit>> ELSE Append(DecimalString(n \div 10), digit)

\* s.padStart(targetLength, pad) for a one-character pad.
RECURSIVE PadStart(_, _, _)
PadStart(s, targetLength, pad) ==
    IF Len(s) >= targetLength THEN s ELSE PadStart(<<pad>> \o s, targetLength, pad)

\* String(index + 1) without the padding.
DefaultNumberUnpadded(index) == DecimalString(index + 1)

\* String(index + 1).padStart(2, '0')
DefaultNumber(index) == PadStart(DecimalString(index + 1), 2, "0")

\* numberTranslations (imported from ./others): the keys in the order
\* Object.keys yields them, each with its ordinal strings. The keys are those
\* the function's own text names, and a pair of which one's leading token is a
\* prefix of the other's; an ordinal is written as a letter for the language
\* and its position, the sequences are of different lengths, and one holds an
\* empty string.
numberTranslations ==
    <<[key |-> <<"E", "n", "g", "l", "i", "s", "h">>,
        ordinals |-> <<<<"e", "1">>, <<"e", "2">>, <<"e", "3">>>>],
       \* Chinese (Simplified & Traditional - #, #/#)
       [key |-> <<"C", "h", "i", "n", "e", "s", "e", " ", "(", "S", "i", "m", "p", "l", "i", "f", "i", "e", "d", " ", "&", " ", "T", "r", "a", "d", "i", "t", "i", "o", "n", "a", "l", " ", "-", " ", "#", ",", " ", "#", "/", "#", ")">>,
        ordinals |-> <<<<"c", "1">>, <<"c", "2">>, <<"c", "3">>>>],
       \* Persian/Farsi (#)
       [key |-> <<"P", "e", "r", "s", "i", "a", "n", "/", "F", "a", "r", "s", "i", " ", "(", "#", ")">>,
        ordinals |-> <<<<"p", "1">>, <<"p", "2">>, <<"p", "3">>>>],
       \* Irish (Gaeilge)
       [key |-> <<"I", "r", "i", "s", "h", " ", "(", "G", "a", "e", "i", "l", "g", "e", ")">>,
        ordinals |-> <<<<"i", "1">>, <<>>, <<"i", "3">>>>],
       \* Scottish Gaelic (G#idhlig)
       [key |-> <<"S", "c", "o", "t", "t", "i", "s", "h", " ", "G", "a", "e", "l", "i", "c", " ", "(", "G", "#", "i", "d", "h", "l", "i", "g", ")">>,
        ordinals |-> <<<<"s", "1">>, <<"s", "2">>>>],
       \* Tagalog/Filipino (Tagalog/Filipino)
       [key |-> <<"T", "a", "g", "a", "l", "o", "g", "/", "F", "i", "l", "i", "p", "i", "n", "o", " ", "(", "T", "a", "g", "a", "l", "o", "g", "/", "F", "i", "l", "i", "p", "i", "n", "o", ")">>,
        ordinals |-> <<<<"t", "1">>, <<"t", "2">>, <<"t", "3">>>>],
       \* Kannada (#)
       [key |-> <<"K", "a", "n", "n", "a", "d", "a", " ", "(", "#", ")">>,
        ordinals |-> <<<<"k", "1">>, <<"k", "2">>>>],
       \* Malay (Bahasa Melayu)
       [key |-> <<"M", "a", "l", "a", "y", " ", "(", "B", "a", "h", "a", "s", "a", " ", "M", "e", "l", "a", "y", "u", ")">>,
        ordinals |-> <<<<"m", "1">>, <<"m", "2">>, <<"m", "3">>>>],
       \* Malayalam (#)
       [key |-> <<"M", "a", "l", "a", "y", "a", "l", "a", "m", " ", "(", "#", ")">>,
        ordinals |-> <<<<"y", "1">>>>]>>

\* The properties every object literal inherits from Object.prototype: a
\* bracket lookup by one of these names yields a function, not an entry.
InheritedProperties == {<<"c", "o", "n", "s", "t", "r", "u", "c", "t", "o", "r">>, <<"t", "o", "S", "t", "r", "i", "n", "g">>, <<"v", "a", "l", "u", "e", "O", "f">>, <<"h", "a", "s", "O", "w", "n", "P", "r", "o", "p", "e", "r", "t", "y">>}

Keys == [i \in 1..Len(numberTranslations) |-> numberTranslations[i].key]

\* numberTranslations[key] for an own key: its ordinal strings, if any.
OrdinalsOf(key) ==
    IF \E i \in 1..Len(numberTranslations) : numberTranslations[i].key = key
    THEN Some(numberTranslations[CHOOSE i \in 1..Len(numberTranslations) :
                                     numberTranslations[i].key = key].ordinals)
    ELSE None

\* Object.keys(numberTranslations).find(test), given the positions of the
\* keys that pass the test: the first of them.
Find(hits) ==
    IF hits = {} THEN None
    ELSE Some(Keys[CHOOSE i \in hits : \A j \in hits : i <= j])

\* `match && numberTranslations[match]`: a non-empty key that has an entry.
Entered(match) == match # None /\ match[1] # <<>> /\ OrdinalsOf(match[1]) # None

\* numberTranslations[key][index] without the `|| default`: an absent or
\* empty entry comes back as it is (the empty string stands for both).
OrdinalRaw(key, index) ==
    LET ordinals == OrdinalsOf(key)[1]
    IN IF index + 1 \in DOMAIN ordinals THEN ordinals[index + 1] ELSE <<>>

\* numberTranslations[key][index] || String(index + 1).padStart(2, '0')
OrdinalOrDefault(key, index) ==
    LET ordinals == OrdinalsOf(key)[1]
    IN IF index + 1 \in DOMAIN ordinals /\ ordinals[index + 1] # <<>>
       THEN ordinals[index + 1]
       ELSE DefaultNumber(index)

\* language.trim() without the lower-casing.
NormalizedLangCaseKept(language) == Trim(language)

\* const normalizedLang = language.trim().toLowerCase();
NormalizedLang(language) == ToLowerCase(Trim(language))

\* Step 1: numberTranslations[language], by the string as given.
DirectKey(language) == IF OrdinalsOf(language) # None THEN Some(language) ELSE None

\* Step 2: exactMatch
ExactMatch(language) ==
    LET normalizedLang == NormalizedLang(language)
    IN Find({i \in 1..Len(Keys) : ToLowerCase(Trim(Keys[i])) = normalizedLang})

\* Step 3: prefixMatch
PrefixMatch(language) ==
    LET normalizedLang == NormalizedLang(language)
    IN Find({i \in 1..Len(Keys) : StartsWith(ToLowerCase(Keys[i]), normalizedLang)})

\* Step 4: languageAsPrefix
LanguageAsPrefix(language) ==
    LET normalizedLang == NormalizedLang(language)
    IN Find({i \in 1..Len(Keys) : StartsWith(normalizedLang, FirstToken(ToLowerCase(Keys[i])))})

\* The specialCases literal.
specialCases ==
    <<[alias |-> <<"e", "n", "g", "l", "i", "s", "h">>,
        key |-> <<"E", "n", "g", "l", "i", "s", "h">>],
       \* chinese
       [alias |-> <<"c", "h", "i", "n", "e", "s", "e">>,
        key |-> <<"C", "h", "i", "n", "e", "s", "e", " ", "(", "S", "i", "m", "p", "l", "i", "f", "i", "e", "d", " ", "&", " ", "T", "r", "a", "d", "i", "t", "i", "o", "n", "a", "l", " ", "-", " ", "#", ",", " ", "#", "/", "#", ")">>],
       \* persian
       [alias |-> <<"p", "e", "r", "s", "i", "a", "n">>,
        key |-> <<"P", "e", "r", "s", "i", "a", "n", "/", "F", "a", "r", "s", "i", " ", "(", "#", ")">>],
       \* farsi
       [alias |-> <<"f", "a", "r", "s", "i">>,
        key |-> <<"P", "e", "r", "s", "i", "a", "n", "/", "F", "a", "r", "s", "i", " ", "(", "#", ")">>],
       \* irish
       [alias |-> <<"i", "r", "i", "s", "h">>,
        key |-> <<"I", "r", "i", "s", "h", " ", "(", "G", "a", "e", "i", "l", "g", "e", ")">>],
       \* scottish
       [alias |-> <<"s", "c", "o", "t", "t", "i", "s", "h">>,
        key |-> <<"S", "c", "o", "t", "t", "i", "s", "h", " ", "G", "a", "e", "l", "i", "c", " ", "(", "G", "#", "i", "d", "h", "l", "i", "g", ")">>],
       \* tagalog
       [alias |-> <<"t", "a", "g", "a", "l", "o", "g">>,
        key |-> <<"T", "a", "g", "a", "l", "o", "g", "/", "F", "i", "l", "i", "p", "i", "n", "o", " ", "(", "T", "a", "g", "a", "l", "o", "g", "/", "F", "i", "l", "i", "p", "i", "n", "o", ")">>],
       \* filipino
       [alias |-> <<"f", "i", "l", "i", "p", "i", "n", "o">>,
        key |-> <<"T", "a", "g", "a", "l", "o", "g", "/", "F", "i", "l", "i", "p", "i", "n", "o", " ", "(", "T", "a", "g", "a", "l", "o", "g", "/", "F", "i", "l", "i", "p", "i", "n", "o", ")">>]>>

\* Step 5: specialMatch = specialCases[normalizedLang]. An inherited property
\* name yields a function, whose string is no key of numberTranslations.
SpecialMatch(language) ==
    LET normalizedLang == NormalizedLang(language)
        hits == {i \in 1..Len(specialCases) : specialCases[i].alias = normalizedLang}
    IN IF hits = {} THEN None ELSE Some(specialCases[CHOOSE i \in hits : TRUE].key)

\* What a call yields: the string returned and the resolution steps it went
\* through, in order (6 is the final return of the default number).
Returned(value, steps) == [value |-> value, steps |-> steps]

\* The entry of `key` at `index` is absent or the empty string.
NoOrdinalAt(key, index) ==
    LET ordinals == OrdinalsOf(key)[1]
    IN ~(index + 1 \in DOMAIN ordinals /\ ordinals[index + 1] # <<>>)

\* getNumberForLanguage with the two prefix steps in the other order.
getNumberForLanguageSwapped(language, index) ==
    IF language \in InheritedProperties
    THEN Returned(DefaultNumber(index), <<1>>)
    ELSE IF DirectKey(language) # None
    THEN Returned(OrdinalOrDefault(language, index), <<1>>)
    ELSE IF Entered(ExactMatch(language))
    THEN Returned(OrdinalOrDefault(ExactMatch(language)[1], index), <<1, 2>>)
    ELSE IF Entered(LanguageAsPrefix(language))
    THEN Returned(OrdinalOrDefault(LanguageAsPrefix(language)[1], index), <<1, 2, 4>>)
    ELSE IF Entered(PrefixMatch(language))
    THEN Returned(OrdinalOrDefault(PrefixMatch(language)[1], index), <<1, 2, 4, 3>>)
    ELSE IF Entered(SpecialMatch(language))
    THEN Returned(OrdinalOrDefault(SpecialMatch(language)[1], index), <<1, 2, 4, 3, 5>>)
    ELSE Returned(DefaultNumber(index), <<1, 2, 4, 3, 5, 6>>)

\* getNumberForLanguage where a step whose language has no ordinal at the
\* index does not return but lets the later steps try.
getNumberForLanguageFallThrough(language, index) ==
    IF DirectKey(language) # None /\ ~NoOrdinalAt(language, index)
    THEN Returned(OrdinalOrDefault(language, index), <<1>>)
    ELSE IF Entered(ExactMatch(language)) /\ ~NoOrdinalAt(ExactMatch(language)[1], index)
    THEN Returned(OrdinalOrDefault(ExactMatch(language)[1], index), <<1, 2>>)
    ELSE IF Entered(PrefixMatch(language)) /\ ~NoOrdinalAt(PrefixMatch(language)[1], index)
    THEN Returned(OrdinalOrDefault(PrefixMatch(language)[1], index), <<1, 2, 3>>)
    ELSE IF Entered(LanguageAsPrefix(language))
            /\ ~NoOrdinalAt(LanguageAsPrefix(language)[1], index)
    THEN Returned(OrdinalOrDefault(LanguageAsPrefix(language)[1], index), <<1, 2, 3, 4>>)
    ELSE IF Entered(SpecialMatch(language)) /\ ~NoOrdinalAt(SpecialMatch(language)[1], index)
    THEN Returned(OrdinalOrDefault(SpecialMatch(language)[1], index), <<1, 2, 3, 4, 5>>)
    ELSE Returned(DefaultNumber(index), <<1, 2, 3, 4, 5, 6>>)

\* The function, return by return. A bracket lookup by an inherited property
\* name is truthy and has nothing at a numeric index, so it returns the
\* default number from the first step.
getNumberForLanguage(language, index) ==
    IF language \in InheritedProperties
    THEN Returned(DefaultNumber(index), <<1>>)
    ELSE IF DirectKey(language) # None
    THEN Returned(OrdinalOrDefault(language, index), <<1>>)
    ELSE IF Entered(ExactMatch(language))
    THEN Returned(OrdinalOrDefault(ExactMatch(language)[1], index), <<1, 2>>)
    ELSE IF Entered(PrefixMatch(language))
    THEN Returned(OrdinalOrDefault(PrefixMatch(language)[1], index), <<1, 2, 3>>)
    ELSE IF Entered(LanguageAsPrefix(language))
    THEN Returned(OrdinalOrDefault(LanguageAsPrefix(language)[1], index), <<1, 2, 3, 4>>)
    ELSE IF Entered(SpecialMatch(language))
    THEN Returned(OrdinalOrDefault(SpecialMatch(language)[1], index), <<1, 2, 3, 4, 5>>)
    ELSE Returned(DefaultNumber(index), <<1, 2, 3, 4, 5, 6>>)

(***************************************************************************)
(* The arguments the formatter is called with                              *)
(***************************************************************************)
MaxLangLen == 3
MaxIndex == 4

Alphabet == {"e", "E", "m", " "}

\* Every string over Alphabet of at most MaxLangLen characters (the empty
\* string and the all-blank strings among them).
ShortLanguages == UNION {[1..n -> Alphabet] : n \in 0..MaxLangLen}

\* Names as callers write them: keys, their case and white-space variants,
\* prefixes, longer phrases, aliases, unknown names, inherited property names.
SampleLanguages ==
    {<<"E", "n", "g", "l", "i", "s", "h">>,
     <<"e", "n", "g", "l", "i", "s", "h">>,
     <<"E", "N", "G", "L", "I", "S", "H">>,
     <<" ", "E", "n", "g", "l", "i", "s", "h", " ">>,
     <<"e", "n", "g", "l", "i", "s", "h", " ", "(", "u", "s", ")">>,
     <<"K", "a", "n", "n", "a", "d", "a", " ", "(", "#", ")">>,
     <<"K", "A", "N", "N", "A", "D", "A", " ", "(", "#", ")">>,
     <<" ", "k", "a", "n", "n", "a", "d", "a", " ", "(", "#", ")", "\t">>,
     <<"k", "a", "n", "n", "a", "d", "a">>,
     <<"K", "a", "n", "n", "a", "d", "a">>,
     <<"k", "a", "n", "n", "a", "d", "a", " ", "l", "a", "n", "g", "u", "a", "g", "e">>,
     <<"f", "a", "r", "s", "i">>,
     <<"F", "a", "r", "s", "i">>,
     <<" ", "F", "I", "L", "I", "P", "I", "N", "O", " ">>,
     <<"p", "e", "r", "s", "i", "a", "n">>,
     <<"c", "h", "i", "n", "e", "s", "e">>,
     <<"I", "r", "i", "s", "h", " ", "(", "G", "a", "e", "i", "l", "g", "e", ")">>,
     <<"i", "r", "i", "s", "h">>,
     <<"I", "R", "I", "S", "H", " ", "(", "G", "A", "E", "I", "L", "G", "E", ")">>,
     <<"s", "c", "o", "t", "t", "i", "s", "h">>,
     <<"t", "a", "g", "a", "l", "o", "g">>,
     <<"m", "a", "l", "a", "y">>,
     <<"M", "a", "l", "a", "y">>,
     <<"m", "a", "l", "a", "y", "a", "l", "a", "m">>,
     <<"M", "a", "l", "a", "y", "a", "l", "a", "m">>,
     <<"M", "a", "l", "a", "y", "a", "l", "a", "m", " ", "(", "#", ")">>,
     <<"M", "A", "L", "A", "Y", " ", "(", "B", "A", "H", "A", "S", "A", " ", "M", "E", "L", "A", "Y", "U", ")">>,
     <<"K", "l", "i", "n", "g", "o", "n">>,
     <<"k", "l", "i", "n", "g", "o", "n">>,
     <<"c", "o", "n", "s", "t", "r", "u", "c", "t", "o", "r">>,
     <<" ", "C", "o", "n", "s", "t", "r", "u", "c", "t", "o", "r">>,
     <<"t", "o", "S", "t", "r", "i", "n", "g">>}

Languages == ShortLanguages \cup SampleLanguages \cup {Keys[i] : i \in 1..Len(Keys)}

\* Every index up to MaxIndex, and the indices where index + 1 gains a digit.
Indices == (0..MaxIndex) \cup {8, 9, 98, 99}

InitLocale ==
    /\ ApiIdle
    /\ StoreIdle
    /\ PageIdle
    /\ LauncherIdle
    /\ argLanguage \in Languages
    /\ argIndex \in Indices
    /\ ordinal = None
    /\ consulted = <<>>

\* One call of the function with the arguments drawn.
CallGetNumberForLanguage ==
    /\ ordinal = None
    /\ ordinal' = Some(getNumberForLanguage(argLanguage, argIndex).value)
    /\ consulted' = getNumberForLanguage(argLanguage, argIndex).steps
    /\ UNCHANGED <<argLanguage, argIndex>>
    /\ UNCHANGED <<apiVars, storeVars, pageVars, launcherVars>>

NextLocale == CallGetNumberForLanguage

SpecLocale == InitLocale /\ [][NextLocale]_vars

(***************************************************************************)
(* Claims about getNumberForLanguage (checked under SpecLocale)            *)
(***************************************************************************)
Digits == <<"0", "1", "2", "3", "4", "5", "6", "7", "8", "9">>

\* The number a string of decimal digits denotes.
RECURSIVE DecimalValue(_)
DecimalValue(s) ==
    IF s = <<>> THEN 0
    ELSE 10 * DecimalValue(SubSeq(s, 1, Len(s) - 1))
         + (CHOOSE d \in 0..9 : Digits[d + 1] = s[Len(s)])

\* s is the decimal form of n, left-padded with "0" to two digits and no further.
ZeroPaddedTwoDigits(s, n) ==
    /\ Len(s) >= 2
    /\ \A i \in 1..Len(s) : \E d \in 1..10 : Digits[d] = s[i]
    /\ DecimalValue(s) = n
    /\ Len(s) > 2 => s[1] # "0"

\* What each of the five lookups finds for the language, in the order of the
\* spec's list: <<>> where it finds no table entry.
Findings(language) ==
    LET exactMatch == ExactMatch(language)
        prefixMatch == PrefixMatch(language)
        languageAsPrefix == LanguageAsPrefix(language)
        specialMatch == SpecialMatch(language)
    IN <<DirectKey(language),
         IF Entered(exactMatch) THEN exactMatch ELSE None,
         IF Entered(prefixMatch) THEN prefixMatch ELSE None,
         IF Entered(languageAsPrefix) THEN languageAsPrefix ELSE None,
         IF Entered(specialMatch) THEN specialMatch ELSE None>>

\* The first step of `findings` that found an entry (0 when none did).
FirstFinding(findings) ==
    LET steps == {n \in 1..Len(findings) : findings[n] # None}
    IN IF steps = {} THEN 0 ELSE CHOOSE n \in steps : \A m \in steps : n <= m

Called == ordinal # None

\* C6: whenever the call has returned for a language for which no resolution
\* step finds a table entry, the result is the decimal form of index + 1
\* left-padded with "0" to two digits.
C6FallbackIsZeroPadded ==
    (Called /\ FirstFinding(Findings(argLanguage)) = 0)
        => ZeroPaddedTwoDigits(ordinal[1], argIndex + 1)

\* "Klingon" at index 9 came back as "10".
C6Witness ==
    /\ argLanguage = <<"K", "l", "i", "n", "g", "o", "n">>
    /\ argIndex = 9
    /\ FirstFinding(Findings(argLanguage)) = 0
    /\ ordinal = Some(<<"1", "0">>)

\* The language differs from the key only in letter case and in white space
\* around it.
CaseVariant(language, key) ==
    /\ language # key
    /\ \E from \in 1..Len(language) :
          /\ from + Len(key) - 1 <= Len(language)
          /\ \A i \in 1..Len(language) :
                (i < from \/ i >= from + Len(key)) => language[i] \in WhiteSpace
          /\ \A i \in 1..Len(key) :
                ToLowerCase(<<language[from + i - 1]>>) = ToLowerCase(<<key[i]>>)

\* C7: whenever the call has returned for a language that differs from a
\* table key only in letter case or surrounding white space, the result is
\* what the function returns for the key itself at the same index.
C7CaseInsensitive ==
    Called =>
        \A k \in 1..Len(Keys) :
            CaseVariant(argLanguage, Keys[k])
                => ordinal[1] = getNumberForLanguage(Keys[k], argIndex).value

\* " kannada (#)<tab>" at index 0 came back as the first Kannada ordinal.
C7Witness ==
    /\ argLanguage = <<" ", "k", "a", "n", "n", "a", "d", "a", " ", "(", "#", ")", "\t">>
    /\ CaseVariant(argLanguage, <<"K", "a", "n", "n", "a", "d", "a", " ", "(", "#", ")">>)
    /\ argIndex = 0
    /\ ordinal = Some(<<"k", "1">>)

\* C8: whenever the call has returned, the result comes from the first step,
\* in the order 1 to 5, that finds a table entry (that entry's ordinal at the
\* index, or the default number where it has none), the steps gone through
\* are those up to that one and no other, and the result is the default
\* number when no step finds an entry.
C8FirstFindingStepDecides ==
    Called =>
        LET findings == Findings(argLanguage)
            first == FirstFinding(findings)
        IN IF first = 0
           THEN ordinal[1] = DefaultNumber(argIndex)
           ELSE /\ ordinal[1] = OrdinalOrDefault(findings[first][1], argIndex)
                /\ consulted = [n \in 1..first |-> n]

\* "malayalam" is a prefix of the key "Malayalam (#)" (step 3) and starts with
\* the leading token of the key "Malay (Bahasa Melayu)" (step 4): the result
\* is the Malayalam ordinal.
C8Witness ==
    /\ argLanguage = <<"m", "a", "l", "a", "y", "a", "l", "a", "m">>
    /\ argIndex = 0
    /\ FirstFinding(Findings(argLanguage)) = 3
    /\ Findings(argLanguage)[4] # None
    /\ Findings(argLanguage)[4] # Findings(argLanguage)[3]
    /\ ordinal = Some(<<"y", "1">>)

\* C9: whenever the call has returned and the first step that finds a table
\* entry finds one with no ordinal, or an empty one, at the index, the result
\* is the zero-padded index + 1 and no later step was gone through.
C9MissingOrdinalFallsBack ==
    Called =>
        LET findings == Findings(argLanguage)
            first == FirstFinding(findings)
        IN (first # 0 /\ NoOrdinalAt(findings[first][1], argIndex))
              => /\ ZeroPaddedTwoDigits(ordinal[1], argIndex + 1)
                 /\ \A n \in 1..Len(consulted) : consulted[n] <= first

\* "malayalam" at index 1: the Malayalam entry found by step 3 has one ordinal
\* only, the Malay entry that step 4 would find has a second one, and the
\* result is "02".
C9Witness ==
    /\ argLanguage = <<"m", "a", "l", "a", "y", "a", "l", "a", "m">>
    /\ argIndex = 1
    /\ FirstFinding(Findings(argLanguage)) = 3
    /\ Findings(argLanguage)[4] # None
    /\ ~NoOrdinalAt(Findings(argLanguage)[4][1], argIndex)
    /\ ordinal = Some(<<"0", "2">>)
    /\ consulted = <<1, 2, 3>>

\* C10: whatever the language string (empty, blank and unknown ones included)
\* and the index, what the call has returned is a non-empty string.
C10TotalNonEmpty ==
    Called => /\ Len(ordinal[1]) > 0
              /\ \A i \in 1..Len(ordinal[1]) : ordinal[1][i] # ""

\* A language of one blank returned a non-empty string, past the end of the
\* entry it resolved to.
C10Witness ==
    /\ argLanguage = <<" ">>
    /\ argIndex = 99
    /\ Called
    /\ Len(ordinal[1]) = 3


(***************************************************************************)
(* storeHelpers.ts: hasValidLLMConfig and handleSaveLLMConfig              *)
(***************************************************************************)
\* x !== '' && x !== null && x !== undefined
Given(x) == x # Str("") /\ x # Null /\ x # Undefined

\* hasValidLLMConfig with the custom provider judged by CUSTOM_LLM_URL alone.
hasValidLLMConfigCustomUrlOnly(llmConfig) ==
    IF ~Truthy(llmConfig.LLM) THEN FALSE
    ELSE LET OPENAI_API_KEY == llmConfig.OPENAI_API_KEY
             GOOGLE_API_KEY == llmConfig.GOOGLE_API_KEY
             isOllamaConfigValid == Given(llmConfig.OLLAMA_MODEL) /\ Given(llmConfig.OLLAMA_URL)
             isCustomConfigValid == Given(llmConfig.CUSTOM_LLM_URL)
         IN  IF llmConfig.LLM = Str("openai") THEN Given(OPENAI_API_KEY)
             ELSE IF llmConfig.LLM = Str("google") THEN Given(GOOGLE_API_KEY)
             ELSE IF llmConfig.LLM = Str("ollama") THEN isOllamaConfigValid
             ELSE IF llmConfig.LLM = Str("custom") THEN isCustomConfigValid
             ELSE FALSE
hasValidLLMConfig(llmConfig) ==
    IF ~Truthy(llmConfig.LLM) THEN FALSE
    ELSE LET OPENAI_API_KEY == llmConfig.OPENAI_API_KEY
             GOOGLE_API_KEY == llmConfig.GOOGLE_API_KEY
             isOllamaConfigValid == Given(llmConfig.OLLAMA_MODEL) /\ Given(llmConfig.OLLAMA_URL)
             isCustomConfigValid == Given(llmConfig.CUSTOM_LLM_URL) /\ Given(llmConfig.CUSTOM_MODEL)
         IN  IF llmConfig.LLM = Str("openai") THEN Given(OPENAI_API_KEY)
             ELSE IF llmConfig.LLM = Str("google") THEN Given(GOOGLE_API_KEY)
             ELSE IF llmConfig.LLM = Str("ollama") THEN isOllamaConfigValid
             ELSE IF llmConfig.LLM = Str("custom") THEN isCustomConfigValid
             ELSE FALSE

\* The values a field of an LLMConfig object can hold: absent, null, empty, set.
FieldValues == {Undefined, Null, Str(""), Str("x")}

\* The configurations a caller can pass: any provider name (the four known
\* ones, an unknown one, none), and every field absent, null, empty or set.
LLMConfigs ==
    [LLM : {Undefined, Null, Str(""), Str("openai"), Str("google"), Str("ollama"),
            Str("custom"), Str("anthropic")},
     OPENAI_API_KEY : FieldValues,
     GOOGLE_API_KEY : FieldValues,
     OLLAMA_URL : FieldValues,
     OLLAMA_MODEL : FieldValues,
     CUSTOM_LLM_URL : FieldValues,
     CUSTOM_MODEL : FieldValues]

\* One call of hasValidLLMConfig on its own.
CallHasValidLLMConfig ==
    /\ validResult = <<>>
    /\ save.pc = "idle"
    /\ \E llmConfig \in LLMConfigs :
        /\ validArg' = <<llmConfig>>
        /\ validResult' = <<hasValidLLMConfig(llmConfig)>>
    /\ UNCHANGED <<save, saveFetches, dispatched>>
    /\ UNCHANGED <<apiVars, localeVars, pageVars, launcherVars>>

\* setLLMConfig(llmConfig): the action the slice's creator builds.
setLLMConfig(llmConfig) == [type |-> "userConfig/setLLMConfig", payload |-> llmConfig]

\* What the fetch of handleSaveLLMConfig can settle with: the function never
\* reads the Response, so one body per status stands for all.
SaveResponses == {resp \in Responses : resp.data = NoPayload}

\* handleSaveLLMConfig with the POST issued before the validation.
handleSaveLLMConfigFetchFirst ==
    /\ save.pc = "idle"
    /\ validResult = <<>>
    /\ \E llmConfig \in LLMConfigs :
        /\ saveFetches' = Append(saveFetches,
                                 [method |-> "POST", url |-> "/api/user-config",
                                  body |-> Stringify(llmConfig), settled |-> "pending"])
        /\ IF ~hasValidLLMConfig(llmConfig)
           THEN save' = [pc |-> "rejected", arg |-> <<llmConfig>>,
                         error |-> <<"Provided configuration is not valid">>]
           ELSE save' = [pc |-> "awaiting", arg |-> <<llmConfig>>, error |-> <<>>]
    /\ UNCHANGED <<validArg, validResult, dispatched>>
    /\ UNCHANGED <<apiVars, localeVars, pageVars, launcherVars>>
\* handleSaveLLMConfig from its call to its await: the validation, and for a
\* valid configuration the POST, at which the function suspends.
handleSaveLLMConfig ==
    /\ save.pc = "idle"
    /\ validResult = <<>>
    /\ \E llmConfig \in LLMConfigs :
        IF ~hasValidLLMConfig(llmConfig)
        THEN /\ save' = [pc |-> "rejected", arg |-> <<llmConfig>>,
                         error |-> <<"Provided configuration is not valid">>]
             /\ UNCHANGED saveFetches
        ELSE /\ save' = [pc |-> "awaiting", arg |-> <<llmConfig>>, error |-> <<>>]
             /\ saveFetches' = Append(saveFetches,
                                      [method |-> "POST", url |-> "/api/user-config",
                                       body |-> Stringify(llmConfig), settled |-> "pending"])
    /\ UNCHANGED <<validArg, validResult, dispatched>>
    /\ UNCHANGED <<apiVars, localeVars, pageVars, launcherVars>>

\* handleSaveLLMConfig dispatching only on a success status (response.ok).
handleSaveLLMConfigResumeIfOk ==
    /\ save.pc = "awaiting"
    /\ \E resp \in SaveResponses :
        /\ saveFetches' = [saveFetches EXCEPT ![Len(saveFetches)].settled =
                               IF resp.kind = "fault" THEN "rejected" ELSE resp.statusText]
        /\ IF resp.kind = "fault"
           THEN /\ save' = [save EXCEPT !.pc = "rejected", !.error = FetchFault.message]
                /\ UNCHANGED dispatched
           ELSE /\ save' = [save EXCEPT !.pc = "resolved"]
                /\ dispatched' = IF Ok(resp)
                                 THEN Append(dispatched, setLLMConfig(save.arg[1]))
                                 ELSE dispatched
    /\ UNCHANGED <<validArg, validResult>>
    /\ UNCHANGED <<apiVars, localeVars, pageVars, launcherVars>>
\* handleSaveLLMConfig from its await on: a rejected fetch rejects the
\* function; a resolved one, whatever its status, is followed by the dispatch.
handleSaveLLMConfigResume ==
    /\ save.pc = "awaiting"
    /\ \E resp \in SaveResponses :
        /\ saveFetches' = [saveFetches EXCEPT ![Len(saveFetches)].settled =
                               IF resp.kind = "fault" THEN "rejected" ELSE resp.statusText]
        /\ IF resp.kind = "fault"
           THEN /\ save' = [save EXCEPT !.pc = "rejected", !.error = FetchFault.message]
                /\ UNCHANGED dispatched
           ELSE /\ save' = [save EXCEPT !.pc = "resolved"]
                /\ dispatched' = Append(dispatched, setLLMConfig(save.arg[1]))
    /\ UNCHANGED <<validArg, validResult>>
    /\ UNCHANGED <<apiVars, localeVars, pageVars, launcherVars>>

InitStore == ApiIdle /\ LocaleIdle /\ StoreIdle /\ PageIdle /\ LauncherIdle

NextStore ==
    \/ CallHasValidLLMConfig
    \/ handleSaveLLMConfig
    \/ handleSaveLLMConfigResume

SpecStore == InitStore /\ [][NextStore]_vars

(***************************************************************************)
(* V2TestPage: the inputs, fetchModels and testGeneration                  *)
(***************************************************************************)
Num(n) == [t |-> "number", v |-> n]
NaN == [t |-> "NaN", v |-> 0]

\* The longest prefix of s made of decimal digits.
RECURSIVE LeadingDigits(_)
LeadingDigits(s) ==
    IF s = <<>> \/ s[1] \notin {Digits[i] : i \in 1..Len(Digits)} THEN <<>>
    ELSE <<s[1]>> \o LeadingDigits(Tail(s))

\* parseInt(string): an optional sign, then the leading decimal digits, the
\* rest ignored; NaN when there is no digit to read. (A number input's value
\* has neither leading white space nor a radix prefix.)
ParseInt(s) ==
    LET negative == s # <<>> /\ s[1] = "-"
        digits == LeadingDigits(IF negative THEN Tail(s) ELSE s)
    IN  IF digits = <<>> THEN NaN
        ELSE Num(IF negative THEN 0 - DecimalValue(digits) ELSE DecimalValue(digits))

\* What the slides input (type number) can hold as its value: the empty
\* string, and numerals inside and outside the range its min and max name.
SlideInputs == {<<>>, <<"5">>, <<"2">>, <<"2", "5">>, <<"-", "1">>, <<"7", ".", "5">>}

\* What the prompt textarea can hold.
Prompts == {Str(""), Str("Create a presentation about renewable energy sources")}

\* The decoded JSON bodies the two endpoints can answer with.
PagePayloads ==
    {[t |-> "null", detail |-> Undefined, models |-> Undefined]}
    \cup
    [t : {"object"},
     detail : {Undefined, Str("Invalid model")},
     models : {Undefined, Arr("[m1]")}]

NoPagePayload == [t |-> "none", detail |-> Undefined, models |-> Undefined]

\* What a fetch of the page can settle with: a rejection, or a Response of
\* a success or a non-success status whose body parses or does not.
PageResponses ==
    {[kind |-> "fault", status |-> 0, parsable |-> FALSE, data |-> NoPagePayload]}
    \cup
    {[kind |-> "response", status |-> st, parsable |-> TRUE, data |-> d] :
        st \in {200, 500}, d \in PagePayloads}
    \cup
    {[kind |-> "response", status |-> st, parsable |-> FALSE, data |-> NoPagePayload] :
        st \in {200, 500}}

\* toast({title, description, variant})
Toast(title, description, variant) ==
    [title |-> title, description |-> description, variant |-> variant]

\* The handlers that are suspended at their await.
Awaiting == {handler \in {"models", "generation"} : inflight[handler] # <<>>}

\* The number of toasts a behaviour is followed for.
MaxToasts == 2

\* Room for one more handler to run to its toast.
HasRoom == Len(toasts) + Cardinality(Awaiting) < MaxToasts

\* onChange of the prompt textarea.
setPrompt ==
    /\ \E value \in Prompts : page' = [page EXCEPT !.prompt = value]
    /\ UNCHANGED <<toasts, inflight>>
    /\ UNCHANGED <<apiVars, localeVars, storeVars, launcherVars>>

\* onValueChange of the model select: "Default" (the empty value) or one of
\* the models loaded.
setModel ==
    /\ \E value \in {Str("")} \cup (IF page.availableModels = Arr("[m1]") THEN {Str("m1")} ELSE {}) :
          page' = [page EXCEPT !.model = value]
    /\ UNCHANGED <<toasts, inflight>>
    /\ UNCHANGED <<apiVars, localeVars, storeVars, launcherVars>>

\* onChange of the slides input: the value is stored as typed, min and max
\* are attributes of the input and no handler reads them.
setSlides ==
    /\ \E value \in SlideInputs : page' = [page EXCEPT !.slides = value]
    /\ UNCHANGED <<toasts, inflight>>
    /\ UNCHANGED <<apiVars, localeVars, storeVars, launcherVars>>

\* One settlement of a handler, kept for the handler's latest run: what its
\* fetch settled with and the toasts that run raised.
Settlement(resp, raised) == <<[response |-> resp, raised |-> raised]>>

\* fetchModels up to its await: setLoadingModels(true) and the GET. The button
\* that calls it is disabled while loadingModels is true.
fetchModels ==
    /\ ~page.loadingModels
    /\ inflight.models = <<>>
    /\ HasRoom
    /\ page' = [page EXCEPT !.loadingModels = TRUE]
    /\ inflight' = [inflight EXCEPT !.models =
                        <<[method |-> "GET", url |-> "/api/v2/ppt/models", cache |-> "default"]>>]
    /\ UNCHANGED toasts
    /\ UNCHANGED <<apiVars, localeVars, storeVars, launcherVars>>

\* The try block of fetchModels once its fetch has settled: what it throws,
\* or the models it stores. A Response that is not ok is passed over: the
\* `if (res.ok)` has no else.
fetchModelsTry(resp) ==
    IF resp.kind = "fault" THEN [kind |-> "throw", models |-> Undefined]
    ELSE IF ~Ok(resp) THEN [kind |-> "skip", models |-> Undefined]
    ELSE IF ~resp.parsable \/ resp.data.t = "null" THEN [kind |-> "throw", models |-> Undefined]
    ELSE [kind |-> "loaded", models |-> resp.data.models]

\* `Found ${data.models?.length || 0} available models`
FoundModels(models) ==
    IF models = Arr("[m1]") THEN Str("Found 1 available models")
    ELSE Str("Found 0 available models")

\* fetchModels from its await on: the rest of try, catch and finally.
fetchModelsResume ==
    /\ inflight.models # <<>>
    /\ \E resp \in PageResponses :
        LET result == fetchModelsTry(resp)
            raised == CASE result.kind = "loaded" ->
                               <<Toast("Models loaded", FoundModels(result.models), "default")>>
                        [] result.kind = "throw" ->
                               <<Toast("Error", Str("Failed to load available models"), "destructive")>>
                        [] result.kind = "skip" -> <<>>
        IN  /\ page' = [page EXCEPT
                            !.availableModels = IF result.kind = "loaded"
                                                THEN OrElse(result.models, Arr("[]"))
                                                ELSE @,
                            !.loadingModels = FALSE]
            /\ toasts' = toasts \o raised
            /\ inflight' = [inflight EXCEPT !.models = <<>>,
                                            !.settled["fetchModels"] = Settlement(resp, raised)]
    /\ UNCHANGED <<apiVars, localeVars, storeVars, launcherVars>>

\* testGeneration up to its await: the three setters, requestData, the POST.
\* The button that calls it is disabled while loading is true or the prompt
\* is empty.
testGeneration ==
    /\ ~page.loading
    /\ Truthy(page.prompt)
    /\ inflight.generation = <<>>
    /\ HasRoom
    /\ page' = [page EXCEPT !.loading = TRUE, !.error = Null, !.response = Null]
    /\ LET requestData == [prompt |-> page.prompt,
                           n_slides |-> ParseInt(page.slides),
                           language |-> Str("English"),
                           slide_mode |-> Str("normal"),
                           model |-> OrElse(page.model, Undefined)]
       IN  inflight' = [inflight EXCEPT !.generation =
                           <<[method |-> "POST", url |-> "/api/v2/ppt/generate/presentation",
                              cache |-> "default", body |-> Stringify(requestData)]>>]
    /\ UNCHANGED toasts
    /\ UNCHANGED <<apiVars, localeVars, storeVars, launcherVars>>

\* The try block of testGeneration once its fetch has settled: the message
\* of what it throws, or the data it stores. res.json() is awaited before
\* res.ok is looked at, and data.detail is read from whatever was decoded.
testGenerationTry(resp) ==
    IF resp.kind = "fault" THEN [kind |-> "throw", message |-> Str("Failed to fetch")]
    ELSE IF ~resp.parsable
    THEN [kind |-> "throw", message |-> Str("Unexpected end of JSON input")]
    ELSE IF ~Ok(resp)
    THEN (IF resp.data.t = "null"
          THEN [kind |-> "throw",
                message |-> Str("Cannot read properties of null (reading 'detail')")]
          ELSE [kind |-> "throw",
                message |-> OrElse(resp.data.detail, Str("Generation failed"))])
    ELSE [kind |-> "stored", message |-> Str("")]

\* testGeneration from its await on: the rest of try, catch and finally.
testGenerationResume ==
    /\ inflight.generation # <<>>
    /\ \E resp \in PageResponses :
        LET result == testGenerationTry(resp)
            raised == IF result.kind = "stored"
                      THEN <<Toast("Success!",
                                   Str("Presentation generated successfully with PydanticAI"),
                                   "default")>>
                      ELSE <<Toast("Error", result.message, "destructive")>>
        IN  /\ page' = [page EXCEPT
                            !.response = IF result.kind = "stored" /\ resp.data.t # "null"
                                         THEN resp.data ELSE Null,
                            !.error = IF result.kind = "throw" THEN result.message ELSE @,
                            !.loading = FALSE]
            /\ toasts' = toasts \o raised
            /\ inflight' = [inflight EXCEPT !.generation = <<>>,
                                            !.settled["testGeneration"] = Settlement(resp, raised)]
    /\ UNCHANGED <<apiVars, localeVars, storeVars, launcherVars>>

InitPage == ApiIdle /\ LocaleIdle /\ StoreIdle /\ PageIdle /\ LauncherIdle

NextPage ==
    \/ setPrompt
    \/ setModel
    \/ setSlides
    \/ fetchModels
    \/ fetchModelsResume
    \/ testGeneration
    \/ testGenerationResume

SpecPage == InitPage /\ [][NextPage]_vars

(***************************************************************************)
(* The start scripts: start-v2.sh and the container's start script         *)
(***************************************************************************)
Command(line, kind, child) == [line |-> line, kind |-> kind, child |-> child]

\* The commands of each script that start, wait for or signal a process, in
\* order, each with its line: `cmd &` is a spawn, `redis-server --daemonize
\* yes` returns once the server has detached, nginx with `daemon off` runs in
\* the foreground. The echo lines of start-v2.sh stand as one command.
Scripts ==
    [script \in {"start-v2.sh", "start.sh"} |->
        IF script = "start-v2.sh"
        THEN <<Command(15, "spawn", "fastapi"),
               Command(19, "sleep", "none"),
               Command(24, "spawn", "nextjs-v2"),
               Command(27, "echo", "none"),
               Command(42, "trap", "none"),
               Command(43, "wait", "none")>>
        ELSE <<Command(4, "daemonize", "redis"),
               Command(8, "spawn", "fastapi"),
               Command(12, "spawn", "nextjs"),
               Command(16, "spawn", "nextjs-v2"),
               Command(19, "foreground", "nginx")>>]

\* The command the running script is at.
Current == Scripts[launcher.script][launcher.pc]

\* The script is running and is at a command of the given kind.
At(kind) ==
    /\ launcher.status = "running"
    /\ Current.kind = kind

\* The script moves to its next command, or ends after its last one.
Advanced ==
    IF launcher.pc = Len(Scripts[launcher.script])
    THEN [launcher EXCEPT !.status = "exited"]
    ELSE [launcher EXCEPT !.pc = @ + 1]

\* The children a script has started with `&`.
Backgrounded ==
    {Scripts[launcher.script][i].child :
        i \in {j \in 1..Len(Scripts[launcher.script]) :
                  Scripts[launcher.script][j].kind = "spawn" /\ j < launcher.pc}}

\* `cmd &`: the child is started and the script goes on at once.
Spawn ==
    /\ At("spawn")
    /\ children' = [children EXCEPT ![Current.child] = "running"]
    /\ launcher' = Advanced
    /\ UNCHANGED signalled
    /\ UNCHANGED <<apiVars, localeVars, storeVars, pageVars>>

\* redis-server --daemonize yes: the server detaches, the command returns.
Daemonize ==
    /\ At("daemonize")
    /\ children' = [children EXCEPT ![Current.child] = "running"]
    /\ launcher' = Advanced
    /\ UNCHANGED signalled
    /\ UNCHANGED <<apiVars, localeVars, storeVars, pageVars>>

\* sleep 3 returns.
Sleep ==
    /\ At("sleep")
    /\ launcher' = Advanced
    /\ UNCHANGED <<children, signalled>>
    /\ UNCHANGED <<apiVars, localeVars, storeVars, pageVars>>

\* The echo lines that announce the servers.
Echo ==
    /\ At("echo")
    /\ launcher' = Advanced
    /\ UNCHANGED <<children, signalled>>
    /\ UNCHANGED <<apiVars, localeVars, storeVars, pageVars>>

\* trap "...; kill $FASTAPI_PID $NEXTJS_PID; exit" INT
Trap ==
    /\ At("trap")
    /\ launcher' = [Advanced EXCEPT !.trap = TRUE]
    /\ UNCHANGED <<children, signalled>>
    /\ UNCHANGED <<apiVars, localeVars, storeVars, pageVars>>

\* wait returns once no backgrounded child is running; the script then ends.
Wait ==
    /\ At("wait")
    /\ \A c \in Backgrounded : children[c] # "running"
    /\ launcher' = Advanced
    /\ UNCHANGED <<children, signalled>>
    /\ UNCHANGED <<apiVars, localeVars, storeVars, pageVars>>

\* nginx -g 'daemon off;' is started in the foreground: the script blocks.
ForegroundStart ==
    /\ At("foreground")
    /\ children[Current.child] = "notStarted"
    /\ children' = [children EXCEPT ![Current.child] = "running"]
    /\ UNCHANGED <<launcher, signalled>>
    /\ UNCHANGED <<apiVars, localeVars, storeVars, pageVars>>

\* The foreground command has ended: the script goes on (here, to its end).
ForegroundReturn ==
    /\ At("foreground")
    /\ children[Current.child] = "exited"
    /\ launcher' = Advanced
    /\ UNCHANGED <<children, signalled>>
    /\ UNCHANGED <<apiVars, localeVars, storeVars, pageVars>>

\* A server process ends on its own (a crash, a port in use, a stop from
\* outside), whatever the script is doing.
ChildExits ==
    /\ launcher.status # "notRun"
    /\ \E c \in DOMAIN children :
        /\ children[c] = "running"
        /\ children' = [children EXCEPT ![c] = "exited"]
    /\ UNCHANGED <<launcher, signalled>>
    /\ UNCHANGED <<apiVars, localeVars, storeVars, pageVars>>

\* SIGINT arrives at the running script. With the trap installed its handler
\* runs: kill with the two recorded pids, then exit. Without one (before line
\* 42 of start-v2.sh, and anywhere in start.sh, which has no trap) the
\* default disposition ends the shell and nothing is sent; a shell that is
\* the init process of its container is not ended by a signal it has no
\* handler for, so start.sh may also go on as if nothing had arrived.
Interrupt ==
    /\ launcher.status = "running"
    /\ IF launcher.trap
       THEN /\ signalled' = signalled \cup {"fastapi", "nextjs-v2"}
            /\ children' = [c \in DOMAIN children |->
                               IF c \in {"fastapi", "nextjs-v2"} /\ children[c] = "running"
                               THEN "terminated" ELSE children[c]]
            /\ launcher' = [launcher EXCEPT !.status = "interrupted"]
       ELSE /\ \/ launcher' = [launcher EXCEPT !.status = "interrupted"]
               \/ launcher.script = "start.sh" /\ UNCHANGED launcher
            /\ UNCHANGED <<children, signalled>>
    /\ UNCHANGED <<apiVars, localeVars, storeVars, pageVars>>

\* One of the two scripts is run, from its first command.
InitLauncher ==
    /\ ApiIdle /\ LocaleIdle /\ StoreIdle /\ PageIdle
    /\ launcher \in [script : DOMAIN Scripts, pc : {1}, trap : {FALSE}, status : {"running"}]
    /\ children = [c \in {"redis", "fastapi", "nextjs", "nextjs-v2", "nginx"} |-> "notStarted"]
    /\ signalled = {}

NextLauncher ==
    \/ Spawn
    \/ Daemonize
    \/ Sleep
    \/ Echo
    \/ Trap
    \/ Wait
    \/ ForegroundStart
    \/ ForegroundReturn
    \/ ChildExits
    \/ Interrupt

SpecLauncher == InitLauncher /\ [][NextLauncher]_vars

(***************************************************************************)
(* Claims about what the wrapper sends (checked under SpecApi)             *)
(***************************************************************************)
\* C15: every network call a wrapper method issues, exportAsPDF's and
\* setThemeColors' included, carries the cache mode "no-cache".
C15Original == \A i \in 1..Len(fetches) : fetches[i].cache = "no-cache"

\* A generation request that names flux as image provider and no flux model.
FluxWithoutModel(body) ==
    /\ "image_provider" \in DOMAIN body
    /\ body["image_provider"] = Str("flux")
    /\ "flux_model" \notin DOMAIN body

\* C12: a generation request whose image_provider is flux and that has no
\* flux_model is rejected before dispatch: no network call carries it.
C12Original ==
    op = "generatePresentation" =>
        \A i \in 1..Len(fetches) : ~FluxWithoutModel(fetches[i].body)


(***************************************************************************)
(* Claims about the configuration helpers (checked under SpecStore)        *)
(***************************************************************************)
\* The fields each known provider requires.
RequiredFields ==
    [provider \in {"openai", "google", "ollama", "custom"} |->
        CASE provider = "openai" -> {"OPENAI_API_KEY"}
          [] provider = "google" -> {"GOOGLE_API_KEY"}
          [] provider = "ollama" -> {"OLLAMA_MODEL", "OLLAMA_URL"}
          [] provider = "custom" -> {"CUSTOM_LLM_URL", "CUSTOM_MODEL"}]

\* A known provider is named and each of its required fields is neither the
\* empty string, null nor undefined; no other field is looked at.
ValidAsSpecified(llmConfig) ==
    /\ llmConfig.LLM.t = "string"
    /\ llmConfig.LLM.v \in DOMAIN RequiredFields
    /\ \A field \in RequiredFields[llmConfig.LLM.v] :
          llmConfig[field] \notin {Str(""), Null, Undefined}

\* C17: hasValidLLMConfig returns true exactly when LLM is one of openai,
\* google, ollama, custom and every field that provider requires is neither
\* '', null nor undefined; the other providers' fields do not matter, and any
\* other LLM value gives false.
C17ValidExactlyWhenRequiredFieldsGiven ==
    validResult # <<>> => (validResult[1] <=> ValidAsSpecified(validArg[1]))

\* The call returned true on an ollama configuration whose fields of the
\* other providers are null, absent or empty.
C17Witness ==
    /\ validResult = <<TRUE>>
    /\ validArg[1].LLM = Str("ollama")
    /\ validArg[1].OPENAI_API_KEY = Null
    /\ validArg[1].GOOGLE_API_KEY = Undefined
    /\ validArg[1].CUSTOM_LLM_URL = Str("")

\* C11: handleSaveLLMConfig called with an invalid configuration (no known
\* provider, or a required field missing or empty) throws the validation
\* error having issued no network request and dispatched nothing to the store.
C11InvalidConfigThrowsBeforeFetch ==
    (save.pc # "idle" /\ ~ValidAsSpecified(save.arg[1])) =>
        /\ save.pc = "rejected"
        /\ save.error = <<"Provided configuration is not valid">>
        /\ saveFetches = <<>>
        /\ dispatched = <<>>

\* The call was made with the ollama provider and an empty OLLAMA_URL.
C11Witness ==
    /\ save.pc = "rejected"
    /\ save.arg[1].LLM = Str("ollama")
    /\ save.arg[1].OLLAMA_MODEL = Str("x")
    /\ save.arg[1].OLLAMA_URL = Str("")
    /\ saveFetches = <<>>

\* The POST of handleSaveLLMConfig has resolved with a Response (any status).
SaveFetchResolved ==
    /\ saveFetches # <<>>
    /\ saveFetches[1].settled \notin {"pending", "rejected"}

\* C18: the store is updated only after the POST to /api/user-config has
\* settled at transport level: never before the call, while the fetch is
\* pending, after a failed validation or after a rejected fetch; and always
\* once the fetch has resolved, whatever the HTTP status of the response.
C18DispatchOnlyAfterFetchResolves ==
    /\ save.pc \in {"idle", "awaiting", "rejected"} => dispatched = <<>>
    /\ save.pc = "awaiting" => (saveFetches # <<>> /\ saveFetches[1].settled = "pending")
    /\ save.pc = "resolved" => SaveFetchResolved
    /\ SaveFetchResolved => dispatched = <<setLLMConfig(save.arg[1])>>

\* The fetch resolved with status 500 and the store was updated all the same.
C18Witness ==
    /\ save.pc = "resolved"
    /\ saveFetches[1].settled = "Internal Server Error"
    /\ dispatched = <<setLLMConfig(save.arg[1])>>


(***************************************************************************)
(* Claims about V2TestPage (checked under SpecPage)                        *)
(***************************************************************************)
\* C13: a slide count outside 3..20 (25, say) is never dispatched as it is:
\* every generation request in flight that carries a number as n_slides
\* carries one within 3..20.
C13Original ==
    inflight.generation # <<>> =>
        LET n_slides == inflight.generation[1].body["n_slides"]
        IN  n_slides.t = "number" => (n_slides.v >= 3 /\ n_slides.v <= 20)

\* The backend call failed: a transport fault, or a non-success status.
CallFailed(resp) == resp.kind = "fault" \/ ~Ok(resp)

\* C16: every failed backend call of fetchModels and of testGeneration
\* surfaces as a toast, and a failed generation also leaves the error state
\* set (until the next generation clears it).
C16Original ==
    /\ \A handler \in DOMAIN inflight.settled :
          (inflight.settled[handler] # <<>> /\ CallFailed(inflight.settled[handler][1].response))
              => inflight.settled[handler][1].raised # <<>>
    /\ (/\ inflight.settled["testGeneration"] # <<>>
        /\ CallFailed(inflight.settled["testGeneration"][1].response)
        /\ inflight.generation = <<>>)
            => page.error.t # "null"

\* C19: in testGeneration, loading is true from the start of the call until
\* it settles and false once it has; at the start response and error are
\* cleared; after a completion exactly one of response and error is set.
C19Original ==
    /\ inflight.generation # <<>> =>
          (page.loading /\ page.response.t = "null" /\ page.error.t = "null")
    /\ inflight.generation = <<>> => ~page.loading
    /\ (inflight.generation = <<>> /\ inflight.settled["testGeneration"] # <<>>) =>
          ((page.response.t # "null") # (page.error.t # "null"))


(***************************************************************************)
(* Claims about the start scripts (checked under SpecLauncher)             *)
(***************************************************************************)
\* C14: when an interrupt ends the launcher, every backgrounded child it had
\* started by then (the API process, the front-end processes) has been sent
\* a termination: it never exits on interrupt leaving a started child
\* un-signalled.
C14Original ==
    launcher.status = "interrupted" => \A c \in Backgrounded : c \in signalled

====
